---- MODULE Spec2Model ----
(***************************************************************************)
(* A model of pkmodel/solution.py: the Solution class of the PK model.     *)
(*                                                                         *)
(* Numbers.  The program computes in IEEE doubles (numpy float64).  Here a *)
(* finite number is an exact rational <<n, d>> in lowest terms with d > 0, *)
(* and every non-finite double (inf, -inf, nan) is the one value           *)
(* NonFinite.  Rounding is not modelled.  numpy's division by zero gives a *)
(* non-finite value (with a warning), it does not raise; +, - and * of a   *)
(* non-finite operand stay non-finite.  The code divides by parameters     *)
(* only, so no finite / inf = 0 case arises.                               *)
(*                                                                         *)
(* Indexing.  Python sequences are 0-based, TLA+ sequences 1-based: the    *)
(* operator At(s, i) reads Python's s[i].                                  *)
(***************************************************************************)
EXTENDS Integers, Sequences, FiniteSets

\* ------------------------------------------------------------------ bounds
MaxSize == 2
MaxNsteps == 3
MaxProbe == 1

\* ------------------------------------------------------- float arithmetic
Abs(n) == IF n < 0 THEN -n ELSE n

RECURSIVE Gcd(_, _)
Gcd(a, b) == IF b = 0 THEN a ELSE Gcd(b, a % b)

NonFinite == <<0, 0>>

IsFinite(a) == a[2] # 0

Norm(n, d) ==
    LET g == Gcd(Abs(n), d)
    IN  <<n \div g, d \div g>>

R(i) == <<i, 1>>

FAdd(a, b) ==
    IF ~IsFinite(a) \/ ~IsFinite(b) THEN NonFinite
    ELSE Norm(a[1] * b[2] + b[1] * a[2], a[2] * b[2])

FSub(a, b) ==
    IF ~IsFinite(a) \/ ~IsFinite(b) THEN NonFinite
    ELSE Norm(a[1] * b[2] - b[1] * a[2], a[2] * b[2])

FMul(a, b) ==
    IF ~IsFinite(a) \/ ~IsFinite(b) THEN NonFinite
    ELSE Norm(a[1] * b[1], a[2] * b[2])

FDiv(a, b) ==
    IF ~IsFinite(a) \/ ~IsFinite(b) \/ b[1] = 0 THEN NonFinite
    ELSE IF b[1] < 0 THEN Norm(-(a[1] * b[2]), -(a[2] * b[1]))
    ELSE Norm(a[1] * b[2], a[2] * b[1])

FLess(a, b) == a[1] * b[2] < b[1] * a[2]

FLeq(a, b) == a[1] * b[2] <= b[1] * a[2]

FMin(a, b) == IF FLess(b, a) THEN b ELSE a

At(s, i) == s[i + 1]

zeros(n) == [i \in 1..n |-> R(0)]

AllFinite(v) == \A i \in 1..Len(v) : IsFinite(v[i])

RECURSIVE VecSum(_)
VecSum(v) == IF v = <<>> THEN R(0) ELSE FAdd(Head(v), VecSum(Tail(v)))

\* ------------------------------------------------------------------ state
VARIABLES
    model,      \* self.model: [size, Vc, CL, Qps, Vps]
    protocol,   \* self.protocol: [subcutaneous, k_a, dose]
    tmax,       \* __init__'s tmax
    nsteps,     \* __init__'s nsteps
    t_eval,     \* self.t_eval
    y0,         \* self.y0
    sol,        \* self.sol
    pc,         \* where the control is: new, solving, returning, plotting, ready, dead
    call,       \* the call in progress or last made: init, plot
    outcome,    \* how that call ended: pending, returned, or the exception raised
    separate,   \* generate_plot's argument
    fig,        \* the series drawn by the last completed generate_plot
    step_func,  \* solver's local step_func: "iv" or "sc"
    t_span,     \* the t_span handed to solve_ivp
    t,          \* the integrator's current time
    y,          \* the integrator's current state vector
    ts,         \* the evaluation times reported so far
    ys,         \* the states reported so far, one vector per time
    status,     \* the integrator's status: running, finished, failed
    rhsEvals,   \* the RHS evaluations of the current solve
    last_rhs    \* the last RHS evaluation: [variant, t, state, err, dq]

vars == <<model, protocol, tmax, nsteps, t_eval, y0, sol, pc, call, outcome,
          separate, fig, step_func, t_span, t, y, ts, ys, status, rhsEvals, last_rhs>>

None == "None"

\* An attribute the object does not have (protocol.k_a of a protocol without one).
NoAttr == <<>>

\* ---------------------------------------------------------------- Protocol
\* protocol.dose_time_function(t): the three dose functions of the model.
dose_time_function(tt) ==
    CASE protocol.dose = "zero" -> R(0)
      [] protocol.dose = "const" -> R(1)
      [] protocol.dose = "pulse" -> IF FLess(tt, <<1, 2>>) THEN R(2) ELSE R(0)

\* ------------------------------------------------------------- Flux Engine
iv_cleared_times(state) == FMul(FMul(At(state, 0), model.Vc), model.CL)

\* line 51: cleared = state[0] / Vc * CL
iv_cleared(state) == FMul(FDiv(At(state, 0), model.Vc), model.CL)

iv_flux_index(state, comp) ==
    FMul(At(model.Qps, comp - 1),
         FSub(FDiv(At(state, 0), model.Vc), FDiv(R(comp), At(model.Vps, comp - 1))))

\* line 63: flux = Q_pi * (state[0] / Vc - state[comp] / V_pi)
iv_flux(state, comp) ==
    FMul(At(model.Qps, comp - 1),
         FSub(FDiv(At(state, 0), model.Vc), FDiv(At(state, comp), At(model.Vps, comp - 1))))

iv_central_plus(tt, cleared, flux_sum) ==
    FAdd(FSub(dose_time_function(tt), cleared), flux_sum)

\* line 66: dq_dt[0] = dose_time_function(t) - cleared - flux_sum
iv_central(tt, cleared, flux_sum) ==
    FSub(FSub(dose_time_function(tt), cleared), flux_sum)

\* lines 56-65: the loop over comp in range(1, size), from comp on.  Qps[comp-1],
\* Vps[comp-1] and state[comp] raise IndexError past the end of their sequence.
RECURSIVE iv_loop(_, _, _, _)
iv_loop(state, comp, dq_dt, flux_sum) ==
    IF comp >= model.size THEN [err |-> None, dq |-> dq_dt, flux_sum |-> flux_sum]
    ELSE IF comp - 1 >= Len(model.Qps) \/ comp - 1 >= Len(model.Vps) \/ comp >= Len(state)
    THEN [err |-> "IndexError", dq |-> dq_dt, flux_sum |-> flux_sum]
    ELSE LET flux == iv_flux(state, comp)
         IN  iv_loop(state, comp + 1, Append(dq_dt, flux), FAdd(flux_sum, flux))

\* lines 39-67
rhs_intravenous(tt, state) ==
    IF Len(state) = 0 THEN [err |-> "IndexError", dq |-> <<>>]
    ELSE LET cleared == iv_cleared(state)
             loop == iv_loop(state, 1, <<R(0)>>, R(0))
         IN  IF loop.err # None THEN [err |-> loop.err, dq |-> <<>>]
             ELSE [err |-> None,
                   dq |-> [loop.dq EXCEPT ![1] = iv_central(tt, cleared, loop.flux_sum)]]

\* line 73: cleared = state[1] / Vc * CL
sc_cleared(state) == FMul(FDiv(At(state, 1), model.Vc), model.CL)

\* lines 75-76: dq0_dt = dose_time_function(t); dq0_dt -= k_a * state[0]
sc_depot(tt, state) == FSub(dose_time_function(tt), FMul(protocol.k_a, At(state, 0)))

sc_flux_slot(state, comp) ==
    FMul(At(model.Qps, comp - 1),
         FSub(FDiv(At(state, 1), model.Vc), FDiv(At(state, comp), At(model.Vps, comp - 1))))

\* line 83: flux = Q_pi * (state[1] / Vc - state[comp + 1] / V_pi)
sc_flux(state, comp) ==
    FMul(At(model.Qps, comp - 1),
         FSub(FDiv(At(state, 1), model.Vc), FDiv(At(state, comp + 1), At(model.Vps, comp - 1))))

\* line 86: dq_dt[1] = k_a * state[0] - cleared - flux_sum
sc_central(state, cleared, flux_sum) ==
    FSub(FSub(FMul(protocol.k_a, At(state, 0)), cleared), flux_sum)

\* lines 80-85
RECURSIVE sc_loop(_, _, _, _)
sc_loop(state, comp, dq_dt, flux_sum) ==
    IF comp >= model.size THEN [err |-> None, dq |-> dq_dt, flux_sum |-> flux_sum]
    ELSE IF comp - 1 >= Len(model.Qps) \/ comp - 1 >= Len(model.Vps) \/ comp + 1 >= Len(state)
    THEN [err |-> "IndexError", dq |-> dq_dt, flux_sum |-> flux_sum]
    ELSE LET flux == sc_flux(state, comp)
         IN  sc_loop(state, comp + 1, Append(dq_dt, flux), FAdd(flux_sum, flux))

\* lines 69-87
rhs_subcutaneous(tt, state) ==
    IF Len(state) < 2 THEN [err |-> "IndexError", dq |-> <<>>]
    ELSE IF protocol.k_a = NoAttr THEN [err |-> "AttributeError", dq |-> <<>>]
    ELSE LET cleared == sc_cleared(state)
             loop == sc_loop(state, 1, <<sc_depot(tt, state), R(0)>>, R(0))
         IN  IF loop.err # None THEN [err |-> loop.err, dq |-> <<>>]
             ELSE [err |-> None,
                   dq |-> [loop.dq EXCEPT ![2] = sc_central(state, cleared, loop.flux_sum)]]

\* ------------------------------------------------------------ Solver Driver
\* line 36: np.linspace(0, tmax, nsteps): num points k * (tmax / (num - 1)), the
\* last one set to tmax; one point 0 when num = 1; none when num = 0.
linspace(stop, num) ==
    [k \in 1..num |->
        IF num = 1 THEN R(0)
        ELSE IF k = num THEN R(stop)
        ELSE FMul(R(k - 1), FDiv(R(stop), R(num - 1)))]

solver_y0_size == zeros(model.size)

\* lines 90-99: self.y0 = np.zeros(size + 1) if subcutaneous else np.zeros(size)
solver_y0 == IF protocol.subcutaneous THEN zeros(model.size + 1) ELSE zeros(model.size)

\* lines 90-95: step_func
solver_step_func == IF protocol.subcutaneous THEN "sc" ELSE "iv"

\* line 102: fun = lambda t, y: step_func(t, y)
fun(f, tt, state) == IF f = "sc" THEN rhs_subcutaneous(tt, state) ELSE rhs_intravenous(tt, state)

\* The relative step sizes the integrator's step control may choose.
StepSizes == {<<1, 2>>, <<1, 1>>}

\* The indices of the evaluation times not yet reported that lie at or before tt
\* (solve_ivp: np.searchsorted(t_eval, t, side='right')).
Due(tt) == {k \in (Len(ts) + 1)..Len(t_eval) : FLeq(t_eval[k], tt)}

\* The integrator's output at the evaluation times of one step from (told, yold)
\* with slope f: the step's interpolant.
Interp(told, yold, f, te) == [i \in 1..Len(yold) |-> FAdd(yold[i], FMul(FSub(te, told), f[i]))]

Reported(told, yold, f, tnew) ==
    LET due == Due(tnew)
    IN  [k \in 1..Cardinality(due) |-> Interp(told, yold, f, t_eval[Len(ts) + k])]

ReportedTimes(tnew) ==
    LET due == Due(tnew)
    IN  [k \in 1..Cardinality(due) |-> t_eval[Len(ts) + k]]

\* An exception leaves the call: out of __init__ no object exists, out of
\* generate_plot the object stays usable.
Raise(c, e) ==
    /\ outcome' = e
    /\ pc' = IF c = "init" THEN "dead" ELSE "ready"

\* solver(), lines 90-105, up to the integrator's first step: the regimen and the
\* initial state, the arguments of solve_ivp (t_eval[0] of an empty grid raises
\* IndexError), and the integrator's set-up, which evaluates fun(t0, y0) once.
SolverBegin(c, grid) ==
    LET sf == solver_step_func
        init == solver_y0
        f0 == fun(sf, grid[1], init)
    IN  /\ call' = c
        /\ step_func' = sf
        /\ y0' = init
        /\ sol' = [kind |-> "zeros", t |-> <<>>, y |-> <<init>>, success |-> FALSE]
        /\ ts' = <<>>
        /\ ys' = <<>>
        /\ IF Len(grid) = 0
           THEN /\ Raise(c, "IndexError")
                /\ UNCHANGED <<t_span, t, y, status, rhsEvals, last_rhs>>
           ELSE /\ t_span' = <<grid[1], grid[Len(grid)]>>
                /\ t' = grid[1]
                /\ y' = init
                /\ rhsEvals' = 1
                /\ last_rhs' = [variant |-> sf, t |-> grid[1], state |-> init,
                                err |-> f0.err, dq |-> f0.dq]
                /\ IF f0.err # None
                   THEN /\ Raise(c, f0.err)
                        /\ UNCHANGED status
                   ELSE /\ pc' = "solving"
                        /\ outcome' = "pending"
                        /\ status' = "running"

\* __init__, lines 33-37
Construct ==
    /\ pc = "new"
    /\ t_eval' = linspace(tmax, nsteps)
    /\ SolverBegin("init", linspace(tmax, nsteps))
    /\ UNCHANGED <<model, protocol, tmax, nsteps, separate, fig>>

\* generate_plot, line 117: sol = self.solver()
GeneratePlot ==
    /\ pc = "ready"
    /\ \E sep \in BOOLEAN : separate' = sep
    /\ fig' = <<>>
    /\ SolverBegin("plot", t_eval)
    /\ UNCHANGED <<model, protocol, tmax, nsteps, t_eval>>

\* One step of the integrator inside solve_ivp (line 101).  At the end of the span
\* it finishes at once.  Otherwise it evaluates the RHS; an exception of the RHS
\* leaves solve_ivp, and so does a derivative of another length than the state
\* (numpy cannot add them: ValueError); a non-finite derivative makes every trial
\* step fail until the
\* step size underflows, and the integrator stops with status failed; else it
\* advances by a step no longer than the rest of the span and reports the
\* evaluation times it passed.
IntegratorStep ==
    /\ pc = "solving"
    /\ IF t = t_span[2]
       THEN /\ ts' = ts \o ReportedTimes(t)
            /\ ys' = ys \o Reported(t, y, zeros(Len(y)), t)
            /\ status' = "finished"
            /\ pc' = "returning"
            /\ UNCHANGED <<t, y, rhsEvals, last_rhs, outcome>>
       ELSE LET f == fun(step_func, t, y)
            IN  /\ rhsEvals' = rhsEvals + 1
                /\ last_rhs' = [variant |-> step_func, t |-> t, state |-> y,
                                err |-> f.err, dq |-> f.dq]
                /\ IF f.err # None
                   THEN /\ Raise(call, f.err)
                        /\ UNCHANGED <<t, y, ts, ys, status>>
                   ELSE IF Len(f.dq) # Len(y)
                   THEN /\ Raise(call, "ValueError")
                        /\ UNCHANGED <<t, y, ts, ys, status>>
                   ELSE IF ~AllFinite(f.dq)
                   THEN /\ status' = "failed"
                        /\ pc' = "returning"
                        /\ UNCHANGED <<t, y, ts, ys, outcome>>
                   ELSE \E hh \in StepSizes :
                        LET h == FMin(hh, FSub(t_span[2], t))
                            tnew == FAdd(t, h)
                        IN  /\ t' = tnew
                            /\ y' = Interp(t, y, f.dq, tnew)
                            /\ ts' = ts \o ReportedTimes(tnew)
                            /\ ys' = ys \o Reported(t, y, f.dq, tnew)
                            /\ status' = IF tnew = t_span[2] THEN "finished" ELSE "running"
                            /\ pc' = IF tnew = t_span[2] THEN "returning" ELSE "solving"
                            /\ UNCHANGED outcome
    /\ UNCHANGED <<model, protocol, tmax, nsteps, t_eval, y0, sol, call, separate, fig,
                   step_func, t_span>>

\* The integrator gives up before the end of the span (the step size it needs is
\* below the spacing of doubles): solve_ivp then returns, it does not raise.
IntegratorFail ==
    /\ pc = "solving"
    /\ t # t_span[2]
    /\ status' = "failed"
    /\ pc' = "returning"
    /\ UNCHANGED <<model, protocol, tmax, nsteps, t_eval, y0, sol, call, outcome, separate,
                   fig, step_func, t_span, t, y, ts, ys, rhsEvals, last_rhs>>

\* lines 101-107: solve_ivp returns its result object, whatever its status;
\* self.sol = sol; return sol.  In __init__ the call ends here; generate_plot goes on.
SolverReturn ==
    /\ pc = "returning"
    /\ sol' = [kind |-> "result", t |-> ts, y |-> ys, success |-> (status = "finished")]
    /\ IF call = "init"
       THEN /\ pc' = "ready"
            /\ outcome' = "returned"
       ELSE /\ pc' = "plotting"
            /\ UNCHANGED outcome
    /\ UNCHANGED <<model, protocol, tmax, nsteps, t_eval, y0, call, separate, fig, step_func,
                   t_span, t, y, ts, ys, status, rhsEvals, last_rhs>>

\* sol.y[row, :]
Row(row) == [k \in 1..Len(sol.y) |-> At(sol.y[k], row)]

\* lines 119-127: the first series, drawn from row 0
PlotCentral ==
    [label |-> <<"- q_c", 0>>, row |-> 0, data |-> Row(0),
     title |-> IF separate THEN <<"Central compartment", 0>> ELSE <<None, 0>>]

\* lines 134-143: the series of loop index i, drawn from row i + 1
PlotPeripheral(i) ==
    [label |-> <<"- q_p", i + 2>>, row |-> i + 1, data |-> Row(i + 1),
     title |-> IF separate THEN <<"Peripheral compartment #", i + 1>> ELSE <<None, 0>>]

\* generate_plot, lines 118-147.  A solve that reported no evaluation time leaves
\* sol.y a plain list, and sol.y[0, :] raises TypeError.
Plot ==
    /\ pc = "plotting"
    /\ IF sol.t = <<>>
       THEN /\ Raise("plot", "TypeError")
            /\ UNCHANGED fig
       ELSE /\ fig' = <<PlotCentral>> \o [k \in 1..(model.size - 1) |-> PlotPeripheral(k - 1)]
            /\ outcome' = "returned"
            /\ pc' = "ready"
    /\ UNCHANGED <<model, protocol, tmax, nsteps, t_eval, y0, sol, call, separate, step_func,
                   t_span, t, y, ts, ys, status, rhsEvals, last_rhs>>

\* ------------------------------------------------------------------ inputs
Seqs(S, n) == [1..n -> S]

\* The lengths tried for Qps and Vps of a model of the given size: size - 1, and
\* one short of it.
ArrLens(size) == {n \in 0..(size - 1) : n >= size - 2}

SeqsOfLens(S, size) == UNION {Seqs(S, n) : n \in ArrLens(size)}

DefaultTmax == 1

Models ==
    {[size |-> n, Vc |-> R(vc), CL |-> R(cl), Qps |-> q, Vps |-> v] :
        n \in {1}, vc \in {0, 1, 2}, cl \in {0, 1}, q \in {<<>>}, v \in {<<>>}}
    \cup UNION {
        {[size |-> n, Vc |-> R(vc), CL |-> R(cl), Qps |-> q, Vps |-> v] :
            vc \in {0, 1, 2}, cl \in {0, 1},
            q \in SeqsOfLens({R(1), R(2)}, n), v \in SeqsOfLens({R(1), R(2)}, n)} :
        n \in 2..MaxSize}

Protocols ==
    {[subcutaneous |-> sc, k_a |-> ka, dose |-> d] :
        sc \in BOOLEAN, ka \in {NoAttr, R(1)}, d \in {"zero", "const", "pulse"}}

NoRhs == [variant |-> None, t |-> R(0), state |-> <<>>, err |-> None, dq |-> <<>>]

NoSol == [kind |-> "unset", t |-> <<>>, y |-> <<>>, success |-> FALSE]

\* The arguments of Solution(model, protocol, tmax, nsteps), before __init__ runs.
Init ==
    /\ model \in Models
    /\ protocol \in {p \in Protocols : p.subcutaneous \/ p.k_a = NoAttr}
    /\ tmax \in {0, DefaultTmax}
    /\ nsteps \in 0..MaxNsteps
    /\ t_eval = <<>>
    /\ y0 = <<>>
    /\ sol = NoSol
    /\ pc = "new"
    /\ call = "init"
    /\ outcome = "pending"
    /\ separate = FALSE
    /\ fig = <<>>
    /\ step_func = None
    /\ t_span = <<R(0), R(0)>>
    /\ t = R(0)
    /\ y = <<>>
    /\ ts = <<>>
    /\ ys = <<>>
    /\ status = "running"
    /\ rhsEvals = 0
    /\ last_rhs = NoRhs

Next ==
    \/ Construct
    \/ GeneratePlot
    \/ IntegratorStep
    \/ IntegratorFail
    \/ SolverReturn
    \/ Plot

Spec == Init /\ [][Next]_vars

\* ------------------------------------------- the Flux Engine on its own
\* The two RHS functions applied to arbitrary states of the right length, for
\* well-formed models: the properties of the pure functions are stated over this
\* specification.
ProbeModels ==
    UNION {
        {[size |-> n, Vc |-> R(vc), CL |-> R(cl), Qps |-> q, Vps |-> v] :
            vc \in {1, 2}, cl \in {0, 1},
            q \in Seqs({R(1), R(2)}, n - 1), v \in Seqs({R(1), R(2)}, n - 1)} :
        n \in 1..MaxSize}

ProbeProtocols ==
    {[subcutaneous |-> sc, k_a |-> ka, dose |-> d] :
        sc \in BOOLEAN, ka \in {R(1), R(2)}, d \in {"zero", "const", "pulse"}}

ProbeTimes == {R(0), R(1)}

ProbeStates(n) == Seqs({R(i) : i \in 0..MaxProbe}, n)

InitRhs ==
    /\ model \in ProbeModels
    /\ protocol \in ProbeProtocols
    /\ tmax = DefaultTmax
    /\ nsteps = 0
    /\ t_eval = <<>>
    /\ y0 = <<>>
    /\ sol = NoSol
    /\ pc = "probe"
    /\ call = "init"
    /\ outcome = "pending"
    /\ separate = FALSE
    /\ fig = <<>>
    /\ step_func = None
    /\ t_span = <<R(0), R(0)>>
    /\ t = R(0)
    /\ y = <<>>
    /\ ts = <<>>
    /\ ys = <<>>
    /\ status = "running"
    /\ rhsEvals = 0
    /\ last_rhs = NoRhs

\* rhs_intravenous(t, y) on a state of length size
ProbeIV ==
    /\ pc = "probe"
    /\ ~protocol.subcutaneous
    /\ \E tt \in ProbeTimes, state \in ProbeStates(model.size) :
        LET f == rhs_intravenous(tt, state)
        IN  last_rhs' = [variant |-> "iv", t |-> tt, state |-> state, err |-> f.err, dq |-> f.dq]
    /\ pc' = "probed"
    /\ UNCHANGED <<model, protocol, tmax, nsteps, t_eval, y0, sol, call, outcome, separate,
                   fig, step_func, t_span, t, y, ts, ys, status, rhsEvals>>

\* rhs_subcutaneous(t, y) on a state of length size + 1
ProbeSC ==
    /\ pc = "probe"
    /\ protocol.subcutaneous
    /\ \E tt \in ProbeTimes, state \in ProbeStates(model.size + 1) :
        LET f == rhs_subcutaneous(tt, state)
        IN  last_rhs' = [variant |-> "sc", t |-> tt, state |-> state, err |-> f.err, dq |-> f.dq]
    /\ pc' = "probed"
    /\ UNCHANGED <<model, protocol, tmax, nsteps, t_eval, y0, sol, call, outcome, separate,
                   fig, step_func, t_span, t, y, ts, ys, status, rhsEvals>>

NextRhs ==
    \/ ProbeIV
    \/ ProbeSC

SpecRhs == InitRhs /\ [][NextRhs]_vars

\* ------------------------------------------------------------------ claims
\* The model's parameters are well-formed (spec section 6): a positive central
\* volume, Qps and Vps of length size - 1, and k_a present under subcutaneous dosing.
ValidModel ==
    /\ FLess(R(0), model.Vc)
    /\ Len(model.Qps) = model.size - 1
    /\ Len(model.Vps) = model.size - 1
    /\ protocol.subcutaneous => protocol.k_a # NoAttr

\* The arguments of the solve are valid (spec section 4.2).
ValidConfig == ValidModel /\ nsteps >= 2 /\ tmax > 0

IsZero(v) == \A i \in 1..Len(v) : v[i] = R(0)

\* The flux between the central pool (amount c) and peripheral i (amount p), as
\* the specification writes it.
FluxTerm(i, c, p) == FMul(model.Qps[i], FSub(FDiv(c, model.Vc), FDiv(p, model.Vps[i])))

\* The sum of the fluxes of peripherals 1..n, peripheral i held in state[i + off].
RECURSIVE FluxSum(_, _, _, _)
FluxSum(state, c, off, n) ==
    IF n = 0 THEN R(0)
    ELSE FAdd(FluxSum(state, c, off, n - 1), FluxTerm(n, c, state[n + off]))

\* C1: a Solution built from invalid parameters ends in a ConfigurationError before
\* the RHS is evaluated once.
C1_InvalidConfigFailsFast ==
    (~ValidConfig /\ pc # "new" /\ pc \notin {"probe", "probed"})
        => (outcome = "ConfigurationError" /\ rhsEvals = 0)

\* C2: when the integrator fails, solver() raises IntegrationFailure: it neither
\* stores a failed solution in self.sol nor returns one.
C2_FailureIsRaised ==
    /\ sol.kind = "result" => sol.success
    /\ (status = "failed" /\ pc \in {"ready", "plotting", "dead"})
           => outcome = "IntegrationFailure"

\* C3: rhs_intravenous on a state of length N returns a vector of length N: entry 0
\* is dose(t) - state[0]/Vc*CL - the sum of the fluxes, entry i the flux of
\* peripheral i, Qps[i-1]*(state[0]/Vc - state[i]/Vps[i-1]).
C3_IntravenousRhs ==
    last_rhs.variant = "iv" =>
        LET s == last_rhs.state
            n == model.size
            c == s[1]
        IN  /\ last_rhs.err = None
            /\ Len(last_rhs.dq) = n
            /\ Len(s) = n
            /\ last_rhs.dq[1] =
                   FSub(FSub(dose_time_function(last_rhs.t), FMul(FDiv(c, model.Vc), model.CL)),
                        FluxSum(s, c, 1, n - 1))
            /\ \A i \in 1..(n - 1) : last_rhs.dq[i + 1] = FluxTerm(i, c, s[i + 1])

C3_Witness ==
    /\ last_rhs.variant = "iv"
    /\ model.size >= 2
    /\ model.Vc = R(2)
    /\ model.CL = R(1)
    /\ last_rhs.state[1] = R(1)
    /\ last_rhs.state[2] = R(0)
    /\ last_rhs.dq[2] = FMul(model.Qps[1], <<1, 2>>)

\* C4: rhs_subcutaneous on a state of length N+1 returns a vector of length N+1:
\* entry 0 is dose(t) - k_a*state[0], entry 1 is k_a*state[0] - state[1]/Vc*CL - the
\* sum of the fluxes, entry i+1 the flux of peripheral i,
\* Qps[i-1]*(state[1]/Vc - state[i+1]/Vps[i-1]); peripheral i lives in slot i+1.
C4_SubcutaneousRhs ==
    last_rhs.variant = "sc" =>
        LET s == last_rhs.state
            n == model.size
            c == s[2]
        IN  /\ last_rhs.err = None
            /\ Len(last_rhs.dq) = n + 1
            /\ Len(s) = n + 1
            /\ last_rhs.dq[1] = FSub(dose_time_function(last_rhs.t), FMul(protocol.k_a, s[1]))
            /\ last_rhs.dq[2] =
                   FSub(FSub(FMul(protocol.k_a, s[1]), FMul(FDiv(c, model.Vc), model.CL)),
                        FluxSum(s, c, 2, n - 1))
            /\ \A i \in 1..(n - 1) : last_rhs.dq[i + 2] = FluxTerm(i, c, s[i + 2])

C4_Witness ==
    /\ last_rhs.variant = "sc"
    /\ model.size >= 2
    /\ last_rhs.state[1] = R(1)
    /\ last_rhs.state[2] = R(0)
    /\ last_rhs.state[3] = R(1)
    /\ last_rhs.dq[3] = FSub(R(0), FDiv(model.Qps[1], model.Vps[1]))

\* C5: intravenous, CL = 0, constant dose, zero initial state: every derivative
\* vector sums to dose(t), and the pools of every reported state, the one at tmax
\* included, sum to the dose delivered until then, dose * time.
C5_MassConservation ==
    (ValidModel /\ ~protocol.subcutaneous /\ model.CL = R(0) /\ protocol.dose = "const"
         /\ pc \notin {"probe", "probed"}) =>
        /\ last_rhs.variant # None =>
               /\ last_rhs.err = None
               /\ VecSum(last_rhs.dq) = dose_time_function(last_rhs.t)
        /\ \A k \in 1..Len(ys) : VecSum(ys[k]) = FMul(dose_time_function(ts[k]), ts[k])
        /\ sol.kind = "result" =>
               \A k \in 1..Len(sol.t) :
                   VecSum(sol.y[k]) = FMul(dose_time_function(sol.t[k]), sol.t[k])

C5_Witness ==
    /\ ValidConfig /\ ~protocol.subcutaneous /\ model.CL = R(0) /\ protocol.dose = "const"
    /\ model.size >= 2
    /\ pc = "ready"
    /\ sol.success
    /\ sol.t[Len(sol.t)] = R(tmax)
    /\ VecSum(sol.y[Len(sol.y)]) = R(tmax)
    /\ sol.y[Len(sol.y)][2] # R(0)

\* C6: for tmax > 0 and nsteps >= 2 the trajectory a solve returns has exactly
\* nsteps times, equally spaced and increasing from 0 to tmax, and the span handed
\* to the integrator is [0, tmax].
C6_TrajectoryOnGrid ==
    (tmax > 0 /\ nsteps >= 2 /\ sol.kind = "result") =>
        /\ t_span = <<R(0), R(tmax)>>
        /\ Len(sol.t) = nsteps
        /\ sol.t[1] = R(0)
        /\ sol.t[nsteps] = R(tmax)
        /\ \A k \in 1..(nsteps - 1) :
               /\ FLess(sol.t[k], sol.t[k + 1])
               /\ FSub(sol.t[k + 1], sol.t[k]) = FDiv(R(tmax), R(nsteps - 1))

\* C7: the RHS variant and the zero initial state follow protocol.subcutaneous
\* (intravenous: length size; subcutaneous: length size + 1); for every size >= 1,
\* a model without peripherals included, the RHS returns without error a vector as
\* long as the state, and the state keeps its length through the integration.
C7_RegimenAndLength ==
    (pc \notin {"new", "probe", "probed"}) =>
        LET n == IF protocol.subcutaneous THEN model.size + 1 ELSE model.size
        IN  /\ step_func = (IF protocol.subcutaneous THEN "sc" ELSE "iv")
            /\ Len(y0) = n
            /\ IsZero(y0)
            /\ last_rhs.variant # None =>
                   /\ last_rhs.variant = step_func
                   /\ Len(last_rhs.state) = n
                   /\ Len(y) = n
                   /\ ValidModel => (last_rhs.err = None /\ Len(last_rhs.dq) = n)
            /\ \A k \in 1..Len(ys) : Len(ys[k]) = n
            /\ sol.kind = "result" => \A k \in 1..Len(sol.y) : Len(sol.y[k]) = n

C7_Witness ==
    /\ pc = "ready"
    /\ ValidConfig
    /\ protocol.subcutaneous
    /\ model.size = 1
    /\ model.Qps = <<>>
    /\ sol.success
    /\ rhsEvals >= 2
    /\ Len(last_rhs.dq) = 2
    /\ Len(sol.y[Len(sol.y)]) = 2

\* C8: for a valid model under either regimen with dose(t) = 0, the derivative at
\* the zero state is the zero vector, and every state of the trajectory computed
\* from the zero initial state is the zero vector.
C8_ZeroDoseStaysZero ==
    (ValidModel /\ protocol.dose = "zero" /\ pc \notin {"probe", "probed"}) =>
        /\ (last_rhs.variant # None /\ IsZero(last_rhs.state)) =>
               (last_rhs.err = None /\ IsZero(last_rhs.dq) /\ Len(last_rhs.dq) = Len(last_rhs.state))
        /\ \A k \in 1..Len(ys) : IsZero(ys[k])
        /\ sol.kind = "result" => \A k \in 1..Len(sol.y) : IsZero(sol.y[k])

C8_Witness ==
    /\ ValidConfig /\ protocol.dose = "zero"
    /\ model.size >= 2
    /\ pc = "ready"
    /\ sol.success
    /\ Len(sol.y) = nsteps
    /\ rhsEvals >= 3
    /\ IsZero(last_rhs.dq)
    /\ IsZero(sol.y[Len(sol.y)])

\* C9: generate_plot draws no figure from a solve that did not complete: the error
\* reaches the caller and no figure is returned.
C9_NoPlotFromFailedSolve ==
    /\ (fig # <<>>) => sol.success
    /\ (pc = "ready" /\ call = "plot" /\ ~sol.success)
           => (fig = <<>> /\ outcome \notin {"returned", "pending"})

\* The row of the trajectory that holds the central pool, and the one that holds
\* peripheral k, under the state layout the solver uses.
CentralRow == IF step_func = "sc" THEN 1 ELSE 0

PeripheralRow(k) == IF step_func = "sc" THEN k + 1 ELSE k

\* C10: in both regimens the series labelled q_c is the central pool's row, the
\* series of peripheral k is peripheral k's row, every peripheral pool is drawn
\* exactly once, and the depot row is not drawn as the central compartment.
\* Stated for the figures drawn from a completed solve with valid arguments.
C10_PlotRowsMatchLayout ==
    (fig # <<>> /\ ValidConfig /\ sol.success) =>
        /\ fig[1].label[1] = "- q_c"
        /\ fig[1].row = CentralRow
        /\ Len(fig) = model.size
        /\ \A k \in 1..(model.size - 1) :
               /\ fig[k + 1].row = PeripheralRow(k)
               /\ Cardinality({j \in 1..Len(fig) : fig[j].row = PeripheralRow(k)}) = 1

====
